---- MODULE Spec2Model ----
(***************************************************************************)
(* Graph scripts of lucasvianav/graphs-intro: the random builder (ex01),   *)
(* read_pajek and the edge-list builders (Graph.__init__ of ex02, ex03,    *)
(* ex04, ex05, proj02), breadth-first search (ex02), depth-first           *)
(* traversal and the island count (ex03), cycle detection (ex04),          *)
(* Dijkstra (ex05) and Prim (proj02).                                      *)
(*                                                                         *)
(* A Python list is a sequence (index 0 of the list is index 1 of the      *)
(* sequence), a Python set is a set, a dict is a function.  Node indices   *)
(* are the 0-based indices the code uses; the records of the input file    *)
(* carry 1-based identifiers.  An uncaught exception ends the script: the  *)
(* exception's class name is stored in status (construction) or in result  *)
(* (algorithms) and no further step is taken.                              *)
(***************************************************************************)
EXTENDS Integers, Sequences, FiniteSets, TLC

\* ---------------------------------------------------------------- bounds
\* Largest node count of the graphs explored.
MaxN == 3
\* Largest number of records (lines) of an input file.
MaxArcs == 3

\* sys.maxsize, the "infinite" sentinel of the weighted scripts.  The model
\* uses a value above every path cost that the bounds allow.
inf == 1000000

\* The scripts.  ex02 builds an undirected graph itself; the others build
\* directed graphs from the arcs read_pajek returns.
Unweighted == {"ex02", "ex03", "ex04"}
Weighted == {"ex05", "proj02"}

\* ------------------------------------------------------------- variables
VARIABLES
    script,      \* which script runs
    undirected,  \* read_pajek's flag: the input file says *Edges, not *Arcs
    N,           \* Graph.N (the N handed to Graph.__init__)
    matrix,      \* Graph.matrix: row index -> column index -> entry
    neighbors,   \* Graph.neighbors: node -> set of nodes
    status,      \* "building", "built", or the exception that ended __init__
    k,           \* number of records __init__ has consumed
    invalid,     \* history: some consumed record named a node outside [0, N)
    arcs,        \* read_pajek's list "arcs", handed to Graph.__init__
    p,           \* ex01: the p handed to Graph.__init__, in units of 1/DrawScale
    row,         \* ex01: the loop variable i of __init__
    col,         \* ex01: the loop variable j of __init__
    draws,       \* ex01, history: the calls of random(), each <<i, j, value>>
    distance,    \* ex02: the entry of distancies computed from the last bfs call
    pc,          \* position of the running algorithm
    caller,      \* "none" for a direct call, "main" when the driver loop called
    root,        \* argument root
    target,      \* argument target
    to_analyze,  \* the frontier (queue, stack or heap)
    history,     \* nodes already analyzed
    result,      \* the returned value, or the exception raised
    acc_cost,    \* prim's accumulated cost
    visited,     \* nodes covered by the driver loop (has_cycle, island count)
    islands,     \* island sizes collected by the ex03 driver
    node         \* the driver loop's variable

graphVars == <<script, undirected, N, matrix, neighbors>>
inputVars == <<arcs, p, row, col, draws, distance>>
buildVars == <<status, k, invalid, inputVars>>
algoVars == <<pc, caller, root, target, to_analyze, history, result,
              acc_cost, visited, islands, node>>
vars == <<script, undirected, N, matrix, neighbors, status, k, invalid, arcs, p,
          row, col, draws, distance, pc, caller,
          root, target, to_analyze, history, result, acc_cost, visited,
          islands, node>>

\* ------------------------------------------------------------ generalities
Last(s) == s[Len(s)]

\* Every order in which a Python set can be iterated.
Orderings(S) ==
    {s \in [1..Cardinality(S) -> S] : \A a, b \in 1..Cardinality(S) : s[a] = s[b] => a = b}

Range(s) == {s[x] : x \in DOMAIN s}

\* --------------------------------------------------------------- builders
\* M = [[blank for _ in range(N)] for _ in range(N)]; range(N) is empty for N <= 0.
BlankEntry(s) == IF s \in Weighted THEN inf ELSE 0

EmptyMatrix(s, n) == [i \in 0..(n - 1) |-> [j \in 0..(n - 1) |-> BlankEntry(s)]]

\* neighbors = {i: set([]) for i in range(N)}
EmptyNeighbors(n) == [i \in 0..(n - 1) |-> {}]

NewGraph(s, n) ==
    [status |-> "building", matrix |-> EmptyMatrix(s, n), neighbors |-> EmptyNeighbors(n)]

\* len(edge) the builder demands.
Arity(s) == IF s \in Weighted THEN 3 ELSE 2

\* A Python list index: i in [0, n) is itself, i in [-n, 0) counts from the end.
PyIndex(i, n) == IF i < 0 THEN i + n ELSE i

\* The list M has no position i (IndexError).
BadIndex(i, n) == i < -n \/ i >= n

\* The guard of the builders: "if i >= N or j >= N: raise ValueError".
RangeCheckFails(i, j, n) == i >= n \/ j >= n

\* M[i][j] = v
SetCell(m, i, j, v, n) == [m EXCEPT ![PyIndex(i, n)][PyIndex(j, n)] = v]

\* One iteration of "for edge in arcs" in Graph.__init__ on the graph g under
\* construction (a record of status, matrix and neighbors).
RegisterArc(s, n, g, e) ==
    IF Len(e) # Arity(s)
    THEN [g EXCEPT !.status = "TypeError"]
    ELSE
        LET i == e[1] - 1
            j == e[2] - 1
            v == IF s \in Weighted THEN e[3] ELSE 1
        IN  IF RangeCheckFails(i, j, n)
            THEN [g EXCEPT !.status = "ValueError"]
            ELSE IF BadIndex(i, n) \/ BadIndex(j, n)
            THEN [g EXCEPT !.status = "IndexError"]
            ELSE IF s = "ex02"
            THEN \* M[i][j] = M[j][i] = 1; neighbors[i].add(j); neighbors[j].add(i)
                LET m1 == SetCell(SetCell(g.matrix, i, j, 1, n), j, i, 1, n)
                IN  IF i \notin DOMAIN g.neighbors
                    THEN [g EXCEPT !.status = "KeyError", !.matrix = m1]
                    ELSE IF j \notin DOMAIN g.neighbors
                    THEN [g EXCEPT !.status = "KeyError", !.matrix = m1,
                                   !.neighbors[i] = @ \cup {j}]
                    ELSE [g EXCEPT !.matrix = m1,
                                   !.neighbors = [@ EXCEPT ![i] = @ \cup {j}, ![j] = @ \cup {i}]]
            ELSE \* M[i][j] = v; neighbors[i].add(j)
                LET m1 == SetCell(g.matrix, i, j, v, n)
                IN  IF i \notin DOMAIN g.neighbors
                    THEN [g EXCEPT !.status = "KeyError", !.matrix = m1]
                    ELSE [g EXCEPT !.matrix = m1, !.neighbors[i] = @ \cup {j}]

\* Graph.__init__(N, arcs): the loop over arcs, left as soon as one raises;
\* then self.N, self.matrix and self.neighbors are set.
RECURSIVE RegisterAll(_, _, _, _, _)
RegisterAll(s, n, g, list, x) ==
    IF g.status # "building" THEN g
    ELSE IF x > Len(list) THEN [g EXCEPT !.status = "built"]
    ELSE RegisterAll(s, n, RegisterArc(s, n, g, list[x]), list, x + 1)

Construct(s, n, list) == RegisterAll(s, n, NewGraph(s, n), list, 1)

\* reversed(arc) of ex03/ex04/ex05: the whole tuple reversed.
ReverseAll(a) == [x \in 1..Len(a) |-> a[Len(a) + 1 - x]]

\* (*reversed(arc[:2]), *arc[2:]) of proj02: the endpoints swapped, the rest kept.
ReverseEnds(a) == [x \in 1..Len(a) |-> IF x = 1 THEN a[2] ELSE IF x = 2 THEN a[1] ELSE a[x]]

\* read_pajek: the parsed records, followed by their mirrors when the file
\* says *Edges (edges is read_pajek's "undirected").  ex02 reads its edges from stdin and mirrors nothing.
ReadPajek(s, edges, records) ==
    IF s = "ex02" \/ ~edges THEN records
    ELSE records \o [x \in 1..Len(records) |->
                        IF s = "proj02" THEN ReverseEnds(records[x])
                        ELSE ReverseAll(records[x])]

\* -------------------------------------------- construction, step by step
\* Node identifiers an input record may carry: from -1 (index -2) to one
\* above the largest node count.
IdRange == (-1)..(MaxN + 1)

\* Weights an input record may carry.
BuildWeights == {0, 2}

\* Records over IdRange, of the arity the script expects or one field short/long.
BuildRecords(s) ==
    {<<a, b>> : a \in IdRange, b \in IdRange}
        \cup {<<a, b, w>> : a \in IdRange, b \in IdRange, w \in BuildWeights}

\* The record names a node whose 0-based index is outside [0, n).
NamesOutside(e, n) == \E x \in {1, 2} : e[x] - 1 < 0 \/ e[x] - 1 >= n

\* No file has been read, no random graph asked for, no distance computed.
InputIdle ==
    /\ arcs = <<>>
    /\ p = 0
    /\ row = 0
    /\ col = 0
    /\ draws = <<>>
    /\ distance = <<>>

\* No algorithm has been called yet.
AlgoIdle ==
    /\ pc = "idle"
    /\ caller = "none"
    /\ root = 0
    /\ target = 0
    /\ to_analyze = <<>>
    /\ history = {}
    /\ result = <<>>
    /\ acc_cost = 0
    /\ visited = {}
    /\ islands = <<>>
    /\ node = 0

\* The state when Graph.__init__ of a script of s enters its loop, for a node
\* count in ns.  The arcs are those of a *Arcs file, handed over as they are
\* (ex02 reads a *Edges file and its builder registers both directions).
InitStream(s, ns) ==
    /\ script \in s
    /\ undirected = (script = "ex02")
    /\ N \in ns
    /\ matrix = EmptyMatrix(script, N)
    /\ neighbors = EmptyNeighbors(N)
    /\ status = "building"
    /\ k = 0
    /\ invalid = FALSE
    /\ InputIdle
    /\ AlgoIdle

\* One iteration of the loop of __init__, on the next record of the input,
\* drawn from recs; the input has at most bound records.
Register(recs, bound) ==
    /\ status = "building"
    /\ k < bound
    /\ \E e \in recs :
        LET g == RegisterArc(script, N,
                     [status |-> "building", matrix |-> matrix, neighbors |-> neighbors], e)
        IN  /\ matrix' = g.matrix
            /\ neighbors' = g.neighbors
            /\ status' = g.status
            /\ invalid' = (invalid \/ (Len(e) = Arity(script) /\ NamesOutside(e, N)))
    /\ k' = k + 1
    /\ UNCHANGED <<script, undirected, N, inputVars, algoVars>>

\* The loop is over: self.N = N; self.matrix = M; self.neighbors = neighbors.
\* The count of consumed records is a local of __init__ and is dropped.
Finish ==
    /\ status = "building"
    /\ status' = "built"
    /\ k' = 0
    /\ UNCHANGED <<graphVars, invalid, inputVars, algoVars>>

InitBuild == InitStream({"ex02", "ex03", "ex05"}, (-1)..MaxN)

NextBuild == Register(BuildRecords(script), MaxArcs) \/ Finish

SpecBuild == InitBuild /\ [][NextBuild]_vars

\* ------------------------------------------- the graph an algorithm runs on
\* Weights of the records of a weighted input file.
WeightsOf(s) == IF s = "proj02" THEN {1, 2} ELSE {0, 1}

\* Well-formed records for a graph of n nodes: identifiers in 1..n.
ValidRecords(s, n) ==
    IF s \in Weighted
    THEN {<<a, b, w>> : a \in 1..n, b \in 1..n, w \in WeightsOf(s)}
    ELSE {<<a, b>> : a \in 1..n, b \in 1..n}

\* The state after "graph = Graph(n_nodes, arcs)" of script s for every
\* well-formed *Edges file of at most MaxArcs records: read_pajek hands the
\* records and then their mirrors to __init__.  (A *Arcs file is handed over
\* as it is: InitStream, Register and Finish build its graph.)
InitMirrored(s) ==
    /\ script = s
    /\ undirected = TRUE
    /\ N \in 1..MaxN
    /\ \E m \in 0..MaxArcs :
       \E records \in [1..m -> ValidRecords(s, N)] :
       \E g \in {Construct(s, N, ReadPajek(s, TRUE, records))} :
              /\ matrix = g.matrix
              /\ neighbors = g.neighbors
              /\ status = g.status
    /\ k = 0
    /\ invalid = FALSE
    /\ InputIdle
    /\ AlgoIdle

\* Every graph script s can hold: from a *Arcs file or from a *Edges file.
InitPajek(s) == InitStream({s}, 1..MaxN) \/ InitMirrored(s)

\* ------------------------------------ read_pajek and __init__, line by line
\* The state of a script that reads a pajek file, after the two header lines
\* ("*Vertices N", then "*Arcs" or "*Edges") and before the first record.
InitRead ==
    /\ script \in {"ex03", "ex05", "proj02"}
    /\ undirected \in BOOLEAN
    /\ N \in 1..MaxN
    /\ matrix = EmptyMatrix(script, N)
    /\ neighbors = EmptyNeighbors(N)
    /\ status = "reading"
    /\ k = 0
    /\ invalid = FALSE
    /\ InputIdle
    /\ AlgoIdle

\* One more line of the file: "tuple(int(n) for n in data.split())".
ReadLine ==
    /\ status = "reading"
    /\ Len(arcs) < MaxArcs
    /\ \E e \in ValidRecords(script, N) : arcs' = Append(arcs, e)
    /\ UNCHANGED <<graphVars, status, k, invalid, p, row, col, draws, distance, algoVars>>

\* The file is at its end: "if undirected: arcs.extend(...)", "return n_nodes,
\* arcs", and Graph(n_nodes, arcs) enters its loop.
ReadEnd ==
    /\ status = "reading"
    /\ arcs' = ReadPajek(script, undirected, arcs)
    /\ status' = "building"
    /\ UNCHANGED <<graphVars, k, invalid, p, row, col, draws, distance, algoVars>>

\* One iteration of "for edge in arcs" on the list read_pajek returned.
RegisterNext ==
    /\ status = "building"
    /\ k < Len(arcs)
    /\ LET e == arcs[k + 1]
           g == RegisterArc(script, N,
                    [status |-> "building", matrix |-> matrix, neighbors |-> neighbors], e)
       IN  /\ matrix' = g.matrix
           /\ neighbors' = g.neighbors
           /\ status' = g.status
           /\ invalid' = (invalid \/ (Len(e) = Arity(script) /\ NamesOutside(e, N)))
    /\ k' = k + 1
    /\ UNCHANGED <<script, undirected, N, inputVars, algoVars>>

\* The list is used up: self.N = N; self.matrix = M; self.neighbors = neighbors.
FinishList ==
    /\ status = "building"
    /\ k = Len(arcs)
    /\ status' = "built"
    /\ UNCHANGED <<graphVars, k, invalid, inputVars, algoVars>>

NextRead == ReadLine \/ ReadEnd \/ RegisterNext \/ FinishList

SpecRead == InitRead /\ [][NextRead]_vars

\* ------------------------------------------------ the random builder (ex01)
\* random() returns a float of [0, 1) and p is a float: the model takes the
\* multiples of 1/DrawScale, written as their numerators, so that a draw is
\* one of 0..DrawScale-1 (0 is the draw 0.0) and p = DrawScale is p = 1.0.
DrawScale == 3

\* The values of p handed to Graph.__init__: those of [0, 1] and one on each side.
Probabilities == (-1)..(DrawScale + 1)

\* "if not (0 <= p <= 1)"
BadProbability(q) == ~(0 <= q /\ q <= DrawScale)

\* "if i > j": the iterations that call random().
DrawsForEvery(i, j) == i # j

DrawsFor(i, j) == i > j

\* "int(random() > p)" for the draw d.
Bit(d, q) == IF d > q THEN 1 ELSE 0

\* The loop variables after the iteration (i, j) of the nested loops.
NextRow(i, j, n) == IF j + 1 < n THEN i ELSE i + 1

NextCol(i, j, n) == IF j + 1 < n THEN j + 1 ELSE 0

\* Graph(N, p) is called: N is an int and p a float.
InitRandom ==
    /\ script = "ex01"
    /\ undirected = TRUE
    /\ N \in 0..MaxN
    /\ p \in Probabilities
    /\ matrix = EmptyMatrix("ex01", N)
    /\ neighbors = <<>>
    /\ status = "called"
    /\ k = 0
    /\ invalid = FALSE
    /\ arcs = <<>>
    /\ row = 0
    /\ col = 0
    /\ draws = <<>>
    /\ distance = <<>>
    /\ AlgoIdle

\* raise ValueError("The `p` value is invalid - it must be in [0, 1].")
RandomReject ==
    /\ status = "called"
    /\ BadProbability(p)
    /\ status' = "ValueError"
    /\ UNCHANGED <<graphVars, k, invalid, inputVars, algoVars>>

\* M = [[0 for _ in range(N)] for _ in range(N)], and the loops begin.
RandomBegin ==
    /\ status = "called"
    /\ ~BadProbability(p)
    /\ status' = "building"
    /\ UNCHANGED <<graphVars, k, invalid, inputVars, algoVars>>

\* An iteration with i > j: M[i][j] = M[j][i] = int(random() > p)
RandomDraw ==
    /\ status = "building"
    /\ row < N
    /\ DrawsFor(row, col)
    /\ \E d \in 0..(DrawScale - 1) :
        /\ draws' = Append(draws, <<row, col, d>>)
        /\ matrix' = SetCell(SetCell(matrix, row, col, Bit(d, p), N), col, row, Bit(d, p), N)
    /\ row' = NextRow(row, col, N)
    /\ col' = NextCol(row, col, N)
    /\ UNCHANGED <<script, undirected, N, neighbors, status, k, invalid, arcs, p,
                   distance, algoVars>>

\* An iteration with i <= j: M[i][j] = M[j][i] = M[i][j]
RandomCopy ==
    /\ status = "building"
    /\ row < N
    /\ ~DrawsFor(row, col)
    /\ matrix' = SetCell(SetCell(matrix, row, col, matrix[row][col], N),
                         col, row, matrix[row][col], N)
    /\ row' = NextRow(row, col, N)
    /\ col' = NextCol(row, col, N)
    /\ UNCHANGED <<script, undirected, N, neighbors, status, k, invalid, arcs, p,
                   draws, distance, algoVars>>

\* The loops are over: self.N = N; self.p = p; self.matrix = M
RandomFinish ==
    /\ status = "building"
    /\ ~(row < N)
    /\ status' = "built"
    /\ UNCHANGED <<graphVars, k, invalid, inputVars, algoVars>>

NextRandom == RandomReject \/ RandomBegin \/ RandomDraw \/ RandomCopy \/ RandomFinish

SpecRandom == InitRandom /\ [][NextRandom]_vars

\* "for node in self.neighbors[curr]" and the comprehensions over it read the
\* set: the dict of neighbor sets after the iteration.
IteratedDrained(nb, curr) == [nb EXCEPT ![curr] = {}]

Iterated(nb, curr) == nb

\* The list left as it is: the element is read, not popped.
RemoveNone(s, x) == s

\* s without its element at position x.
RemoveAt(s, x) == [y \in 1..(Len(s) - 1) |-> IF y < x THEN s[y] ELSE s[y + 1]]

\* [path + [node] for node in order]
Extensions(path, order) == [x \in 1..Len(order) |-> Append(path, order[x])]

\* ------------------------------------------------------- ex02: Graph.bfs
\* to_analyze.pop(0): the position popped.
BfsPopAtLast(q) == Len(q)

BfsPopAt(q) == 1

\* adjacencies = [node for node in self.neighbors[curr] if node not in history]
AdjacenciesUnfiltered(curr, hist) == neighbors[curr]

AdjacenciesLowest(curr, hist) ==
    {x \in neighbors[curr] \ hist : \A y \in neighbors[curr] \ hist : x <= y}

Adjacencies(curr, hist) == neighbors[curr] \ hist

\* graph.bfs(root, target): to_analyze = [[root]]; history = set([])
BfsCall ==
    /\ script = "ex02" /\ status = "built" /\ pc = "idle"
    /\ \E r \in 0..(N - 1), t \in 0..(N - 1) :
        /\ root' = r
        /\ target' = t
        /\ to_analyze' = <<<<r>>>>
    /\ history' = {}
    /\ pc' = "bfs"
    /\ UNCHANGED <<graphVars, buildVars, caller, result, acc_cost, visited, islands, node>>

\* "if curr in history: continue"
BfsSkip ==
    /\ pc = "bfs" /\ to_analyze # <<>>
    /\ LET x == BfsPopAt(to_analyze)
           path == to_analyze[x]
       IN  /\ Last(path) \in history
           /\ to_analyze' = RemoveAt(to_analyze, x)
    /\ UNCHANGED <<graphVars, buildVars, pc, caller, root, target, history, result,
                   acc_cost, visited, islands, node>>

\* "if target in adjacencies: return path + [target]"
BfsFound ==
    /\ pc = "bfs" /\ to_analyze # <<>>
    /\ LET x == BfsPopAt(to_analyze)
           path == to_analyze[x]
           curr == Last(path)
       IN  /\ curr \notin history
           /\ target \in Adjacencies(curr, history)
           /\ to_analyze' = RemoveAt(to_analyze, x)
           /\ result' = Append(path, target)
    /\ pc' = "done"
    /\ UNCHANGED <<graphVars, buildVars, caller, root, target, history,
                   acc_cost, visited, islands, node>>

\* history.add(curr); to_analyze.extend([path + [node] for node in adjacencies])
BfsExpand ==
    /\ pc = "bfs" /\ to_analyze # <<>>
    /\ LET x == BfsPopAt(to_analyze)
           path == to_analyze[x]
           curr == Last(path)
           adjacencies == Adjacencies(curr, history)
       IN  /\ curr \notin history
           /\ target \notin adjacencies
           /\ history' = history \cup {curr}
           /\ neighbors' = Iterated(neighbors, curr)
           /\ \E order \in Orderings(adjacencies) :
                to_analyze' = RemoveAt(to_analyze, x) \o Extensions(path, order)
    /\ UNCHANGED <<script, undirected, N, matrix, buildVars, pc, caller, root, target, result,
                   acc_cost, visited, islands, node>>

\* The while loop ends with to_analyze empty: "return []".
BfsExhausted ==
    /\ pc = "bfs" /\ to_analyze = <<>>
    /\ result' = <<>>
    /\ pc' = "done"
    /\ UNCHANGED <<graphVars, buildVars, caller, root, target, to_analyze, history,
                   acc_cost, visited, islands, node>>

\* bfs needs one node and one edge more than the other algorithms before the
\* order of the queue decides the length of the path found.
BfsMaxN == MaxN + 1

BfsMaxArcs == MaxArcs + 1

InitBfs == InitStream({"ex02"}, 1..BfsMaxN)

NextBfs ==
    \/ Register(ValidRecords(script, N), BfsMaxArcs)
    \/ Finish
    \/ BfsCall
    \/ BfsSkip
    \/ BfsFound
    \/ BfsExpand
    \/ BfsExhausted

SpecBfs == InitBfs /\ [][NextBfs]_vars

\* ------------------------------------------------------------ heapq
\* Python's order on the (cost, node) tuples of the heap.
TupleLess(a, b) == a[1] < b[1] \/ (a[1] = b[1] /\ a[2] < b[2])

\* heappush(h, item).  The heap is kept as the sorted list of its items:
\* heappop returns the least item whatever the layout of the heap's array.
HeapPush(h, item) ==
    LET before == Cardinality({x \in DOMAIN h : ~TupleLess(item, h[x])})
    IN  [x \in 1..(Len(h) + 1) |->
            IF x <= before THEN h[x] ELSE IF x = before + 1 THEN item ELSE h[x - 1]]

RECURSIVE HeapPushAll(_, _)
HeapPushAll(h, items) ==
    IF items = <<>> THEN h ELSE HeapPushAll(HeapPush(h, Head(items)), Tail(items))

\* heappop(h): the position of the item returned.
HeapPopAtLast(h) == Len(h)

HeapPopAt(h) == 1

\* -------------------------------------------------- ex05: Graph.dijkstra
\* The cost pushed for a neighbor: self.matrix[curr][neighbor] + cost.
DijkstraCostEdgeOnly(w, cost) == w

DijkstraCost(w, cost) == w + cost

\* "for neighbor in self.neighbors[curr]: if neighbor not in history: heappush(...)"
\* with history already holding curr.  The pushes in any order give the same heap.
DijkstraPushes(h, curr, cost, hist) ==
    LET todo == neighbors[curr] \ hist
        order == CHOOSE o \in Orderings(todo) : TRUE
    IN  HeapPushAll(h, [x \in 1..Len(order) |->
                           <<DijkstraCost(matrix[curr][order[x]], cost), order[x]>>])

\* graph.dijkstra(root, target) with root == target: "return 0".
DijkstraSame ==
    /\ script = "ex05" /\ status = "built" /\ pc = "idle"
    /\ \E r \in 0..(N - 1) :
        /\ root' = r
        /\ target' = r
    /\ result' = 0
    /\ pc' = "done"
    /\ UNCHANGED <<graphVars, buildVars, caller, to_analyze, history, acc_cost,
                   visited, islands, node>>

\* graph.dijkstra(root, target): to_analyze = [(0, root)]; history = set([])
DijkstraCall ==
    /\ script = "ex05" /\ status = "built" /\ pc = "idle"
    /\ \E r \in 0..(N - 1), t \in 0..(N - 1) :
        /\ r # t
        /\ root' = r
        /\ target' = t
        /\ to_analyze' = <<<<0, r>>>>
    /\ history' = {}
    /\ pc' = "dijkstra"
    /\ UNCHANGED <<graphVars, buildVars, caller, result, acc_cost, visited, islands, node>>

\* "cost, curr = heappop(to_analyze); if curr == target: return cost"
DijkstraFound ==
    /\ pc = "dijkstra" /\ to_analyze # <<>>
    /\ LET x == HeapPopAt(to_analyze)
       IN  /\ to_analyze[x][2] = target
           /\ result' = to_analyze[x][1]
           /\ to_analyze' = RemoveAt(to_analyze, x)
    /\ pc' = "done"
    /\ UNCHANGED <<graphVars, buildVars, caller, root, target, history,
                   acc_cost, visited, islands, node>>

\* history.add(curr), then the pushes of the neighbors not in history.
DijkstraExpand ==
    /\ pc = "dijkstra" /\ to_analyze # <<>>
    /\ LET x == HeapPopAt(to_analyze)
           cost == to_analyze[x][1]
           curr == to_analyze[x][2]
       IN  /\ curr # target
           /\ history' = history \cup {curr}
           /\ neighbors' = Iterated(neighbors, curr)
           /\ to_analyze' = DijkstraPushes(RemoveAt(to_analyze, x), curr, cost,
                                           history \cup {curr})
    /\ UNCHANGED <<script, undirected, N, matrix, buildVars, pc, caller, root, target, result,
                   acc_cost, visited, islands, node>>

\* The while loop ends with to_analyze empty: "return inf".
DijkstraExhausted ==
    /\ pc = "dijkstra" /\ to_analyze = <<>>
    /\ result' = inf
    /\ pc' = "done"
    /\ UNCHANGED <<graphVars, buildVars, caller, root, target, to_analyze, history,
                   acc_cost, visited, islands, node>>

NextDijkstra ==
    \/ Register(ValidRecords(script, N), MaxArcs)
    \/ Finish
    \/ DijkstraSame
    \/ DijkstraCall
    \/ DijkstraFound
    \/ DijkstraExpand
    \/ DijkstraExhausted

\* ex05 is explored on the graphs of *Arcs files.
InitDijkstra == InitStream({"ex05"}, 1..MaxN)

SpecDijkstra == InitDijkstra /\ [][NextDijkstra]_vars

\* ------------------------- bfs (ex02) and dijkstra (ex05) on the same graph
\* ex02's driver: "distancies[i][j] = distancies[j][i] = len(graph.bfs(i, j)) - 1",
\* kept with the pair it belongs to.
MeasureDistance ==
    /\ script = "ex02" /\ pc = "done"
    /\ distance' = <<root, target, Len(result) - 1>>
    /\ pc' = "measured"
    /\ UNCHANGED <<graphVars, status, k, invalid, arcs, p, row, col, draws, caller,
                   root, target, to_analyze, history, result, acc_cost, visited,
                   islands, node>>

\* The *Arcs file that gives ex05 the graph ex02 holds, every weight 1: one
\* record "i+1 j+1 1" for every entry (i, j) of the matrix that is set.
UnitArcs ==
    SelectSeq([x \in 1..(N * N) |-> <<((x - 1) \div N) + 1, ((x - 1) % N) + 1, 1>>],
              LAMBDA r : matrix[r[1] - 1][r[2] - 1] = 1)

\* ex05 runs on that file: graph = Graph(n_nodes, arcs).
SameGraphWeighted ==
    /\ script = "ex02" /\ pc = "measured"
    /\ script' = "ex05"
    /\ undirected' = FALSE
    /\ LET g == Construct("ex05", N, UnitArcs)
       IN  /\ matrix' = g.matrix
           /\ neighbors' = g.neighbors
           /\ status' = g.status
    /\ pc' = "idle"
    /\ to_analyze' = <<>>
    /\ history' = {}
    /\ result' = <<>>
    /\ UNCHANGED <<N, k, invalid, inputVars, caller, root, target, acc_cost, visited,
                   islands, node>>

InitAgree == InitStream({"ex02"}, 1..MaxN)

NextAgree ==
    \/ Register(ValidRecords(script, N), MaxArcs)
    \/ Finish
    \/ BfsCall
    \/ BfsSkip
    \/ BfsFound
    \/ BfsExpand
    \/ BfsExhausted
    \/ MeasureDistance
    \/ SameGraphWeighted
    \/ DijkstraSame
    \/ DijkstraCall
    \/ DijkstraFound
    \/ DijkstraExpand
    \/ DijkstraExhausted

SpecAgree == InitAgree /\ [][NextAgree]_vars

\* ------------------------------------------------------ proj02: Graph.prim
\* The start node of "to_analyze = [(0, 0)]".
PrimStart == 0

\* The cost pushed for a neighbor: self.matrix[curr][neighbor].
PrimCostAccumulated(w, cost) == w + cost

PrimCost(w, cost) == w

\* "for neighbor in self.neighbors[curr]: if neighbor not in history: heappush(...)"
PrimPushes(h, curr, cost, hist) ==
    LET todo == neighbors[curr] \ hist
        order == CHOOSE o \in Orderings(todo) : TRUE
    IN  HeapPushAll(h, [x \in 1..Len(order) |->
                           <<PrimCost(matrix[curr][order[x]], cost), order[x]>>])

\* graph.prim(): to_analyze = [(0, 0)]; history = set([]); acc_cost = 0
PrimCall ==
    /\ script = "proj02" /\ status = "built" /\ pc = "idle"
    /\ to_analyze' = <<<<0, PrimStart>>>>
    /\ history' = {}
    /\ acc_cost' = 0
    /\ pc' = "prim"
    /\ UNCHANGED <<graphVars, buildVars, caller, root, target, result, visited,
                   islands, node>>

\* "while len(history) < self.N" is false: "return acc_cost".
PrimReturn ==
    /\ pc = "prim" /\ ~(Cardinality(history) < N)
    /\ result' = acc_cost
    /\ pc' = "done"
    /\ UNCHANGED <<graphVars, buildVars, caller, root, target, to_analyze, history,
                   acc_cost, visited, islands, node>>

\* heappop(to_analyze) on the empty list raises IndexError.
PrimPopEmpty ==
    /\ pc = "prim" /\ Cardinality(history) < N /\ to_analyze = <<>>
    /\ result' = "IndexError"
    /\ pc' = "raised"
    /\ UNCHANGED <<graphVars, buildVars, caller, root, target, to_analyze, history,
                   acc_cost, visited, islands, node>>

\* "if curr in history: continue"
PrimSkip ==
    /\ pc = "prim" /\ Cardinality(history) < N /\ to_analyze # <<>>
    /\ LET x == HeapPopAt(to_analyze)
       IN  /\ to_analyze[x][2] \in history
           /\ to_analyze' = RemoveAt(to_analyze, x)
    /\ UNCHANGED <<graphVars, buildVars, pc, caller, root, target, history, result,
                   acc_cost, visited, islands, node>>

\* "acc_cost += cost; history.add(curr)", then the pushes.
PrimExpand ==
    /\ pc = "prim" /\ Cardinality(history) < N /\ to_analyze # <<>>
    /\ LET x == HeapPopAt(to_analyze)
           cost == to_analyze[x][1]
           curr == to_analyze[x][2]
       IN  /\ curr \notin history
           /\ acc_cost' = acc_cost + cost
           /\ history' = history \cup {curr}
           /\ neighbors' = Iterated(neighbors, curr)
           /\ to_analyze' = PrimPushes(RemoveAt(to_analyze, x), curr, cost,
                                       history \cup {curr})
    /\ UNCHANGED <<script, undirected, N, matrix, buildVars, pc, caller, root, target, result,
                   visited, islands, node>>

\* A stale entry is popped while a node is still missing only on graphs of
\* four nodes and four arcs or more: the *Arcs files go one node and one
\* record further than the *Edges files.
PrimMaxN == MaxN + 1

PrimMaxArcs == MaxArcs + 1

InitPrim == InitStream({"proj02"}, 1..PrimMaxN) \/ InitMirrored("proj02")

NextPrim ==
    \/ Register(ValidRecords(script, N), PrimMaxArcs)
    \/ Finish
    \/ PrimCall
    \/ PrimReturn
    \/ PrimPopEmpty
    \/ PrimSkip
    \/ PrimExpand

SpecPrim == InitPrim /\ [][NextPrim]_vars

\* ------------------------------------------------------- ex03: Graph.dft
\* self.neighbors[curr], the nodes dft goes on to from curr.
DftNeighborsIncoming(curr) == {j \in DOMAIN neighbors : curr \in neighbors[j]}

DftNeighbors(curr) == neighbors[curr]

\* sorted(islands, reverse=True)
RECURSIVE SortedReverse(_)
SortedReverse(s) ==
    IF s = <<>> THEN <<>>
    ELSE LET x == CHOOSE y \in DOMAIN s : \A z \in DOMAIN s : s[y] >= s[z]
         IN  <<s[x]>> \o SortedReverse(RemoveAt(s, x))

\* graph.dft(root), called directly: to_analyze = [root]; history = set([])
DftCall ==
    /\ script = "ex03" /\ status = "built" /\ pc = "idle"
    /\ \E r \in 0..(N - 1) :
        /\ root' = r
        /\ to_analyze' = <<r>>
    /\ history' = {}
    /\ caller' = "none"
    /\ pc' = "dft"
    /\ UNCHANGED <<graphVars, buildVars, target, result, acc_cost, visited, islands, node>>

\* The island count of __main__ begins: visited = set([]); islands = []
IslandsBegin ==
    /\ script = "ex03" /\ status = "built" /\ pc = "idle"
    /\ visited' = {}
    /\ islands' = <<>>
    /\ node' = 0
    /\ caller' = "main"
    /\ pc' = "islands"
    /\ UNCHANGED <<graphVars, buildVars, root, target, to_analyze, history, result, acc_cost>>

\* "for node in range(n_nodes): if node in visited: continue"
IslandsSkip ==
    /\ pc = "islands" /\ node < N /\ node \in visited
    /\ node' = node + 1
    /\ UNCHANGED <<graphVars, buildVars, pc, caller, root, target, to_analyze, history,
                   result, acc_cost, visited, islands>>

\* "connected = graph.dft(node)": the call.
IslandsVisit ==
    /\ pc = "islands" /\ node < N /\ node \notin visited
    /\ root' = node
    /\ to_analyze' = <<node>>
    /\ history' = {}
    /\ pc' = "dft"
    /\ UNCHANGED <<graphVars, buildVars, caller, target, result, acc_cost, visited,
                   islands, node>>

\* The loop is over: print(len(islands)) and the sizes, largest first.
IslandsEnd ==
    /\ pc = "islands" /\ ~(node < N)
    /\ result' = [count |-> Len(islands), sizes |-> SortedReverse(islands)]
    /\ pc' = "done"
    /\ UNCHANGED <<graphVars, buildVars, caller, root, target, to_analyze, history,
                   acc_cost, visited, islands, node>>

\* "if (curr := to_analyze.pop()) in history: continue"
DftSkip ==
    /\ pc = "dft" /\ to_analyze # <<>>
    /\ Last(to_analyze) \in history
    /\ to_analyze' = RemoveAt(to_analyze, Len(to_analyze))
    /\ UNCHANGED <<graphVars, buildVars, pc, caller, root, target, history, result,
                   acc_cost, visited, islands, node>>

\* history.add(curr); to_analyze.extend(adjacencies)
DftExpand ==
    /\ pc = "dft" /\ to_analyze # <<>>
    /\ LET curr == Last(to_analyze)
       IN  /\ curr \notin history
           /\ history' = history \cup {curr}
           /\ neighbors' = Iterated(neighbors, curr)
           /\ \E order \in Orderings(DftNeighbors(curr) \ (history \cup {curr})) :
                to_analyze' = RemoveAt(to_analyze, Len(to_analyze)) \o order
    /\ UNCHANGED <<script, undirected, N, matrix, buildVars, pc, caller, root, target, result,
                   acc_cost, visited, islands, node>>

\* "return list(history)" to a direct caller: the nodes of history, each once,
\* in the order the set yields them.
DftReturn ==
    /\ pc = "dft" /\ to_analyze = <<>> /\ caller = "none"
    /\ result' \in Orderings(history)
    /\ pc' = "done"
    /\ UNCHANGED <<graphVars, buildVars, caller, root, target, to_analyze, history,
                   acc_cost, visited, islands, node>>

\* "return list(history)" to __main__: visited.update(connected);
\* islands.append(len(connected)); then the next node.
DftReturnToMain ==
    /\ pc = "dft" /\ to_analyze = <<>> /\ caller = "main"
    /\ visited' = visited \cup history
    /\ islands' = Append(islands, Cardinality(history))
    /\ node' = node + 1
    /\ pc' = "islands"
    /\ UNCHANGED <<graphVars, buildVars, caller, root, target, to_analyze, history,
                   result, acc_cost>>

InitDft == InitPajek("ex03")

NextDft ==
    \/ Register(ValidRecords(script, N), MaxArcs)
    \/ Finish
    \/ DftCall
    \/ IslandsBegin
    \/ IslandsSkip
    \/ IslandsVisit
    \/ IslandsEnd
    \/ DftSkip
    \/ DftExpand
    \/ DftReturn
    \/ DftReturnToMain

SpecDft == InitDft /\ [][NextDft]_vars

\* ------------------------------- ex04: Graph.island_has_cycle, Graph.has_cycle
\* The position in order of the first node that is in path, 0 when there is none.
FirstInPath(order, path) ==
    IF \E x \in DOMAIN order : order[x] \in Range(path)
    THEN CHOOSE x \in DOMAIN order :
            /\ order[x] \in Range(path)
            /\ \A y \in 1..(x - 1) : order[y] \notin Range(path)
    ELSE 0

\* graph.island_has_cycle(root), called directly: to_analyze = [[root]]
IslandCall ==
    /\ script = "ex04" /\ status = "built" /\ pc = "idle"
    /\ \E r \in 0..(N - 1) :
        /\ root' = r
        /\ to_analyze' = <<<<r>>>>
    /\ history' = {}
    /\ caller' = "none"
    /\ pc' = "island"
    /\ UNCHANGED <<graphVars, buildVars, target, result, acc_cost, visited, islands, node>>

\* graph.has_cycle(): visited = set([]), then the loop over range(self.N).
HasCycleCall ==
    /\ script = "ex04" /\ status = "built" /\ pc = "idle"
    /\ visited' = {}
    /\ node' = 0
    /\ caller' = "main"
    /\ pc' = "has_cycle"
    /\ UNCHANGED <<graphVars, buildVars, root, target, to_analyze, history, result,
                   acc_cost, islands>>

\* "for node in range(self.N): if node in visited: continue"
HasCycleSkip ==
    /\ pc = "has_cycle" /\ node < N /\ node \in visited
    /\ node' = node + 1
    /\ UNCHANGED <<graphVars, buildVars, pc, caller, root, target, to_analyze, history,
                   result, acc_cost, visited, islands>>

\* "has_cycle, connected = self.island_has_cycle(node)": the call.
HasCycleVisit ==
    /\ pc = "has_cycle" /\ node < N /\ node \notin visited
    /\ root' = node
    /\ to_analyze' = <<<<node>>>>
    /\ history' = {}
    /\ pc' = "island"
    /\ UNCHANGED <<graphVars, buildVars, caller, target, result, acc_cost, visited,
                   islands, node>>

\* The loop of has_cycle is over: "return False".
HasCycleEnd ==
    /\ pc = "has_cycle" /\ ~(node < N)
    /\ result' = FALSE
    /\ pc' = "done"
    /\ UNCHANGED <<graphVars, buildVars, caller, root, target, to_analyze, history,
                   acc_cost, visited, islands, node>>

\* One iteration of the while loop that meets a neighbor that is in path:
\* "return True, list(history)", after the pushes for the neighbors before it.
\* has_cycle returns True in its turn.
IslandFound ==
    /\ pc = "island" /\ to_analyze # <<>>
    /\ LET path == Last(to_analyze)
           curr == Last(path)
       IN  /\ history' = history \cup {curr}
           /\ neighbors' = Iterated(neighbors, curr)
           /\ \E order \in Orderings(neighbors[curr]) :
                /\ FirstInPath(order, path) > 0
                /\ to_analyze' = RemoveAt(to_analyze, Len(to_analyze))
                       \o Extensions(path, SubSeq(order, 1, FirstInPath(order, path) - 1))
           /\ result' = IF caller = "main" THEN TRUE
                        ELSE [has_cycle |-> TRUE, connected |-> history \cup {curr}]
    /\ pc' = "done"
    /\ UNCHANGED <<script, undirected, N, matrix, buildVars, caller, root, target, acc_cost, visited,
                   islands, node>>

\* One iteration of the while loop with no neighbor in path: a push for each.
IslandExpand ==
    /\ pc = "island" /\ to_analyze # <<>>
    /\ LET path == Last(to_analyze)
           curr == Last(path)
       IN  /\ history' = history \cup {curr}
           /\ neighbors' = Iterated(neighbors, curr)
           /\ \E order \in Orderings(neighbors[curr]) :
                /\ FirstInPath(order, path) = 0
                /\ to_analyze' = RemoveAt(to_analyze, Len(to_analyze))
                       \o Extensions(path, order)
    /\ UNCHANGED <<script, undirected, N, matrix, buildVars, pc, caller, root, target, result,
                   acc_cost, visited, islands, node>>

\* The while loop ends: "return False, list(history)" to a direct caller.
IslandReturn ==
    /\ pc = "island" /\ to_analyze = <<>> /\ caller = "none"
    /\ result' = [has_cycle |-> FALSE, connected |-> history]
    /\ pc' = "done"
    /\ UNCHANGED <<graphVars, buildVars, caller, root, target, to_analyze, history,
                   acc_cost, visited, islands, node>>

\* "return False, list(history)" to has_cycle: visited.update(connected),
\* then the next node.
IslandReturnToHasCycle ==
    /\ pc = "island" /\ to_analyze = <<>> /\ caller = "main"
    /\ visited' = visited \cup history
    /\ node' = node + 1
    /\ pc' = "has_cycle"
    /\ UNCHANGED <<graphVars, buildVars, caller, root, target, to_analyze, history,
                   result, acc_cost, islands>>

InitCycle == InitPajek("ex04")

NextCycle ==
    \/ Register(ValidRecords(script, N), MaxArcs)
    \/ Finish
    \/ IslandCall
    \/ HasCycleCall
    \/ HasCycleSkip
    \/ HasCycleVisit
    \/ HasCycleEnd
    \/ IslandFound
    \/ IslandExpand
    \/ IslandReturn
    \/ IslandReturnToHasCycle

SpecCycle == InitCycle /\ [][NextCycle]_vars

\* ------------------------------------------------- what the claims refer to
\* The matrix entry denotes an edge.
Present(v) == IF script \in Weighted THEN v # inf ELSE v = 1

Nodes == 0..(N - 1)

\* The arcs of the graph, read off the matrix.
HasArc(i, j) == Present(matrix[i][j])

\* Nodes that a path of at most d arcs from r reaches.
RECURSIVE Within(_, _)
Within(r, d) ==
    IF d = 0 THEN {r}
    ELSE LET w == Within(r, d - 1)
         IN  w \cup {j \in Nodes : \E i \in w : HasArc(i, j)}

Reachable(r) == Within(r, N)

\* Number of arcs of a shortest path from r to a reachable t.
Dist(r, t) == CHOOSE d \in 0..N : t \in Within(r, d) /\ (d = 0 \/ t \notin Within(r, d - 1))

\* w is a path of the graph from r to t.
IsPath(w, r, t) ==
    /\ Len(w) >= 1
    /\ w[1] = r
    /\ Last(w) = t
    /\ \A x \in 1..(Len(w) - 1) : HasArc(w[x], w[x + 1])

\* ------------------------------------------------------------------ claims
\* C1: on a graph of the undirected builder, for root # target with target
\* reachable, bfs returns a path from root to target along edges of the graph
\* with the least possible number of edges.
BfsShortestPath ==
    (script = "ex02" /\ pc = "done" /\ root # target /\ target \in Reachable(root))
        => (IsPath(result, root, target) /\ Len(result) - 1 = Dist(root, target))

\* A two-edge shortest path is returned while the queue still holds another path.
BfsShortestPathWitness ==
    /\ script = "ex02" /\ pc = "done" /\ root # target
    /\ Len(result) = 3
    /\ to_analyze # <<>>

\* C2 as claimed: bfs returns the empty path exactly when target is
\* unreachable from root, root = target included.
BfsEmptyIffUnreachable ==
    (script = "ex02" /\ pc = "done") => (result = <<>> <=> target \notin Reachable(root))

\* C2 as amended: for root # target the result is empty exactly when target is
\* unreachable; for root = target it is [root, root] when root has a self-loop
\* and the empty path otherwise.
BfsEmptyIffUnreachableOrSame ==
    (script = "ex02" /\ pc = "done")
        => IF root # target
           THEN (result = <<>> <=> target \notin Reachable(root))
           ELSE result = (IF root \in neighbors[root] THEN <<root, root>> ELSE <<>>)

\* bfs(root, root) explored a neighbor and came back with the empty path.
BfsSameNodeWitness ==
    /\ script = "ex02" /\ pc = "done" /\ root = target
    /\ result = <<>>
    /\ Cardinality(history) >= 2

\* Least total weight of a path of at most d arcs from r to t, inf when there
\* is none (Bellman-Ford on the matrix).
RECURSIVE MinCost(_, _, _)
MinCost(r, t, d) ==
    IF d = 0 THEN (IF r = t THEN 0 ELSE inf)
    ELSE LET prev == MinCost(r, t, d - 1)
             via == {MinCost(r, i, d - 1) + matrix[i][t] :
                        i \in {x \in Nodes : HasArc(x, t) /\ MinCost(r, x, d - 1) # inf}}
             best == CHOOSE c \in via \cup {prev} : \A c2 \in via \cup {prev} : c <= c2
         IN  best

\* Every weight of the graph is non-negative.
NonNegative == \A i, j \in Nodes : matrix[i][j] >= 0

\* C3: with non-negative weights dijkstra returns 0 for root = target, the
\* least total weight of a directed path from root to target when there is
\* one, and inf when there is none.
DijkstraMinimalCost ==
    (script = "ex05" /\ pc = "done" /\ NonNegative) => result = MinCost(root, target, N)

\* dijkstra returned the cost of a two-arc path that beats the direct arc.
DijkstraMinimalCostWitness ==
    /\ script = "ex05" /\ pc = "done" /\ root # target
    /\ HasArc(root, target)
    /\ result < matrix[root][target]

\* The matrix is that of an undirected graph.
Symmetric == \A i, j \in Nodes : matrix[i][j] = matrix[j][i]

\* Every weight of the graph is positive.
Positive == \A i, j \in Nodes : matrix[i][j] > 0

Connected == Reachable(0) = Nodes

\* The undirected edges between distinct nodes.
Pairs == {pr \in Nodes \X Nodes : pr[1] < pr[2] /\ HasArc(pr[1], pr[2])}

\* Nodes joined to r by the pairs of T, whatever their direction, in at most d steps.
RECURSIVE JoinedFrom(_, _, _)
JoinedFrom(r, T, d) ==
    IF d = 0 THEN {r}
    ELSE LET w == JoinedFrom(r, T, d - 1)
         IN  w \cup {j \in Nodes : \E i \in w : <<i, j>> \in T \/ <<j, i>> \in T}

SpanningTrees ==
    {T \in SUBSET Pairs : Cardinality(T) = N - 1 /\ JoinedFrom(0, T, N) = Nodes}

RECURSIVE Weight(_)
Weight(T) ==
    IF T = {} THEN 0
    ELSE LET pr == CHOOSE q \in T : TRUE
         IN  matrix[pr[1]][pr[2]] + Weight(T \ {pr})

\* The weight of a minimum spanning tree of a connected graph.
MstWeight == CHOOSE c \in {Weight(T) : T \in SpanningTrees} :
                 \A T \in SpanningTrees : c <= Weight(T)

\* C4: on a connected, symmetric, positively weighted graph prim returns the
\* weight of a minimum spanning tree.  The graphs explored are closed under
\* renaming the nodes, so every node of every graph is the start node 0 of one
\* of them, and the weight of a minimum spanning tree does not depend on the
\* names: the total is the same whichever node is the start node.
PrimMinimumSpanningTree ==
    (script = "proj02" /\ pc = "done" /\ Symmetric /\ Positive /\ Connected)
        => result = MstWeight

\* prim returned the weight 2 of the two light edges of a triangle of three nodes.
PrimMinimumSpanningTreeWitness ==
    /\ script = "proj02" /\ pc = "done" /\ Symmetric /\ Positive /\ Connected
    /\ N = 3
    /\ Cardinality(Pairs) = 3
    /\ \E pr \in Pairs : matrix[pr[1]][pr[2]] = 2
    /\ result = 2

\* C5 as claimed: on a graph some node of which node 0 does not reach, prim
\* ends with an explicit Unreachable failure and returns no total.
PrimUnreachableFailure ==
    (script = "proj02" /\ pc \in {"done", "raised"} /\ ~Connected)
        => (pc = "raised" /\ result = "Unreachable")

\* C7: dft(root) returns the nodes that outgoing arcs reach from root, root
\* included, each exactly once.
DftReachableSet ==
    (script = "ex03" /\ pc = "done" /\ caller = "none")
        => (Range(result) = Reachable(root) /\ Len(result) = Cardinality(Reachable(root)))

\* dft returned two nodes of a graph of three whose third node has an arc
\* into root: the arc is not followed backwards.
DftReachableSetWitness ==
    /\ script = "ex03" /\ pc = "done" /\ caller = "none"
    /\ N = 3
    /\ Len(result) = 2
    /\ \E j \in Nodes \ Range(result) : HasArc(j, root)

AllArcs == {pr \in Nodes \X Nodes : HasArc(pr[1], pr[2])}

\* The islands: the components of the graph taken ignoring direction.
Components == {JoinedFrom(r, AllArcs, N) : r \in Nodes}

RECURSIVE SumSeq(_)
SumSeq(s) == IF s = <<>> THEN 0 ELSE Head(s) + SumSeq(Tail(s))

\* C8 as claimed: the island count reports the components of the graph taken
\* ignoring direction: as many islands as components, sizes adding up to N.
IslandsAreComponents ==
    (script = "ex03" /\ pc = "done" /\ caller = "main")
        => (result.count = Cardinality(Components) /\ SumSeq(result.sizes) = N)

\* A self-loop, or a directed loop through two or more nodes, among the nodes of S.
DirectedLoopIn(S) == \E i \in S : \E j \in Nodes : HasArc(i, j) /\ i \in Reachable(j)

\* A self-loop, or an undirected loop among the nodes of S: an edge whose ends
\* stay joined when the edge is taken away.
UndirectedLoopIn(S) ==
    \/ \E i \in S : HasArc(i, i)
    \/ \E pr \in Pairs : pr[1] \in S /\ pr[2] \in JoinedFrom(pr[1], Pairs \ {pr}, N)

\* The graph explored from the nodes of S has a loop: for a *Edges file the
\* graph is undirected (an edge and its mirror are one edge, and a tree or
\* forest has no loop), for a *Arcs file it is directed.
HasLoopIn(S) == IF undirected THEN UndirectedLoopIn(S) ELSE DirectedLoopIn(S)

\* C6 as claimed: has_cycle returns true exactly when the graph has a loop,
\* and island_has_cycle(root) exactly when the part explored from root has
\* one; both return false on a tree or forest.
CycleDetectionExact ==
    (script = "ex04" /\ pc = "done")
        => IF caller = "main"
           THEN (result <=> HasLoopIn(Nodes))
           ELSE (result.has_cycle <=> HasLoopIn(Reachable(root)))

\* C6 on the graphs of *Arcs files only, where the code is right.
CycleDetectionExactDirected ==
    (script = "ex04" /\ pc = "done" /\ ~undirected)
        => IF caller = "main"
           THEN (result <=> HasLoopIn(Nodes))
           ELSE (result.has_cycle <=> HasLoopIn(Reachable(root)))

\* C9 as claimed, for a positive node count: construction fails whenever a
\* record names a node whose index is outside [0, N), so a graph that is
\* returned was given no such record and stores only nodes of [0, N).
ConstructionRejectsOutside ==
    (status = "built" /\ N > 0)
        => (~invalid /\ \A i \in DOMAIN neighbors : neighbors[i] \subseteq Nodes)

\* C10 as claimed: in every graph a builder returns, neighbors[i] is the set
\* of the j whose matrix entry (i, j) denotes an edge.
NeighborsMatchMatrix ==
    status = "built"
        => \A i \in Nodes : neighbors[i] = {j \in Nodes : Present(matrix[i][j])}

\* C10 on the graphs built from records that name nodes of [0, N) only.
NeighborsMatchMatrixValid ==
    (status = "built" /\ ~invalid)
        => \A i \in Nodes : neighbors[i] = {j \in Nodes : Present(matrix[i][j])}


\* ------------------------------------------------------------------- C11
\* C11: every graph built from a *Edges file (read_pajek appends the mirror
\* of every record and __init__ registers the list in order) has a
\* symmetric matrix: entry (i, j) equals entry (j, i), the weight included.
MirroredMatrixSymmetric ==
    (status = "built" /\ undirected) =>
        \A i, j \in 0..(N - 1) : matrix[i][j] = matrix[j][i]

\* The same for the unweighted script only, whose mirror is the reversed pair.
MirroredMatrixSymmetricUnweighted ==
    (status = "built" /\ undirected /\ script = "ex03") =>
        \A i, j \in 0..(N - 1) : matrix[i][j] = matrix[j][i]

\* ------------------------------------------------------------- C12, C17
\* The draws logged for the pair (i, j).
DrawsOf(i, j) == {x \in DOMAIN draws : draws[x][1] = i /\ draws[x][2] = j}

\* C12: the random builder with p = 1.0 returns a graph without edges and
\* with p = 0.0 the complete graph, whatever the draws.
RandomExtremes ==
    (script = "ex01" /\ status = "built") =>
        /\ p = DrawScale => \A i, j \in 0..(N - 1) : matrix[i][j] = 0
        /\ p = 0 => \A i, j \in 0..(N - 1) : i # j => matrix[i][j] = 1

\* The half of C12 about p = 1.0.
RandomNoEdgeAtOne ==
    (script = "ex01" /\ status = "built" /\ p = DrawScale) =>
        \A i, j \in 0..(N - 1) : matrix[i][j] = 0

\* C17: the random builder calls random() once for every pair i > j and for
\* no other; from the draw on, cells (i, j) and (j, i) both hold 1 if the
\* draw exceeded p and 0 if not, and no later iteration changes them; the
\* diagonal stays 0; so the returned matrix is symmetric.
RandomOneDrawPerPair ==
    script = "ex01" =>
        /\ \A i, j \in 0..(N - 1) :
            /\ Cardinality(DrawsOf(i, j)) <= 1
            /\ ~(i > j) => DrawsOf(i, j) = {}
            /\ (i > j /\ status = "built") => Cardinality(DrawsOf(i, j)) = 1
            /\ \A x \in DrawsOf(i, j) :
                /\ matrix[i][j] = Bit(draws[x][3], p)
                /\ matrix[j][i] = Bit(draws[x][3], p)
            /\ i = j => matrix[i][j] = 0
        /\ status = "built" => \A i, j \in 0..(N - 1) : matrix[i][j] = matrix[j][i]

\* A graph of MaxN nodes is returned, with p strictly between 0 and 1, some
\* pair whose draw exceeded p and some pair whose draw equalled p.
RandomOneDrawPerPairWitness ==
    /\ script = "ex01" /\ status = "built" /\ N = MaxN /\ p = 1
    /\ \E x, y \in DOMAIN draws : draws[x][3] > p /\ draws[y][3] = p

\* ------------------------------------------------------------------- C13
\* dijkstra has returned for the pair whose bfs distance is recorded.
SamePairDone ==
    /\ script = "ex05" /\ pc = "done" /\ distance # <<>>
    /\ root = distance[1] /\ target = distance[2]

\* C13: on a graph whose weights are all 1, len(bfs(root, target)) - 1 equals
\* dijkstra(root, target) for every pair, unreachable pairs and
\* root == target included.
BfsDijkstraAgree == SamePairDone => result = distance[3]

\* C13, amended: the two agree when target is another node that root
\* reaches; for an unreachable target bfs gives -1 and dijkstra inf; for
\* root == target dijkstra gives 0 and bfs gives 1 on a self-loop, else -1.
BfsDijkstraAgreeReachable ==
    SamePairDone =>
        IF root = target
        THEN /\ result = 0
             /\ distance[3] = (IF HasArc(root, root) THEN 1 ELSE -1)
        ELSE IF target \in Reachable(root)
        THEN result = distance[3] /\ result = Dist(root, target)
        ELSE result = inf /\ distance[3] = -1

\* Both have answered 2 for a pair two edges apart.
BfsDijkstraAgreeWitness ==
    SamePairDone /\ root # target /\ result = 2 /\ distance[3] = 2

\* ------------------------------------------------------------------- C14
\* The triangle of the scenario: N = 3 and the edges 1-2, 2-3, 1-3.
Triangle ==
    /\ script = "ex02" /\ N = 3
    /\ \A i, j \in 0..2 : matrix[i][j] = (IF i = j THEN 0 ELSE 1)
    /\ \A i \in 0..2 : neighbors[i] = (0..2) \ {i}

\* bfs(0, 2) has returned on the triangle.
TriangleAnswered == Triangle /\ pc = "done" /\ root = 0 /\ target = 2

\* C14: on the triangle bfs(0, 2) returns the path [0, 1, 2].
BfsTriangleViaMiddle == TriangleAnswered => result = <<0, 1, 2>>

\* C14, amended: on the triangle bfs(0, 2) returns the path [0, 2], the edge 1-3.
BfsTriangleDirect == TriangleAnswered => result = <<0, 2>>

BfsTriangleWitness == TriangleAnswered /\ result = <<0, 2>> /\ history = {}

\* --------------------------------------------- every algorithm, one model
\* Each script on the inputs of its own specification.
InitAlgorithms == InitBfs \/ InitDft \/ InitCycle \/ InitDijkstra \/ InitPrim

\* The longest input of each script, as in its own specification.
InputBound ==
    IF script = "ex02" THEN BfsMaxArcs
    ELSE IF script = "proj02" THEN PrimMaxArcs
    ELSE MaxArcs

NextAlgorithms ==
    \/ Register(ValidRecords(script, N), InputBound)
    \/ Finish
    \/ BfsCall
    \/ BfsSkip
    \/ BfsFound
    \/ BfsExpand
    \/ BfsExhausted
    \/ DftCall
    \/ IslandsBegin
    \/ IslandsSkip
    \/ IslandsVisit
    \/ IslandsEnd
    \/ DftSkip
    \/ DftExpand
    \/ DftReturn
    \/ DftReturnToMain
    \/ IslandCall
    \/ HasCycleCall
    \/ HasCycleSkip
    \/ HasCycleVisit
    \/ HasCycleEnd
    \/ IslandFound
    \/ IslandExpand
    \/ IslandReturn
    \/ IslandReturnToHasCycle
    \/ DijkstraSame
    \/ DijkstraCall
    \/ DijkstraFound
    \/ DijkstraExpand
    \/ DijkstraExhausted
    \/ PrimCall
    \/ PrimReturn
    \/ PrimPopEmpty
    \/ PrimSkip
    \/ PrimExpand

SpecAlgorithms == InitAlgorithms /\ [][NextAlgorithms]_vars

\* ------------------------------------------------------------------- C15
\* C15: once the graph is built, no step of bfs, dft, island_has_cycle,
\* has_cycle, dijkstra or prim (nor of the drivers that call them) changes
\* N, the matrix or the neighbor sets.
GraphFrozen ==
    [][status = "built" => (N' = N /\ matrix' = matrix /\ neighbors' = neighbors)]_vars

\* An algorithm has expanded a node that has neighbors.
GraphFrozenWitness ==
    /\ status = "built" /\ pc # "idle"
    /\ \E i \in history : i \in DOMAIN neighbors /\ neighbors[i] # {}

\* ------------------------------------------------------------------- C16
\* The calls are followed on graphs of one node more, so that dijkstra pops
\* a stale entry while its target is unreachable.
TermMaxN == MaxN + 1

InitTerminate == InitStream({"ex02", "ex03", "ex04", "ex05"}, 1..TermMaxN)

\* A step of the loop of bfs, dft, island_has_cycle or dijkstra, or its return.
LoopStep ==
    \/ BfsSkip
    \/ BfsFound
    \/ BfsExpand
    \/ BfsExhausted
    \/ DftSkip
    \/ DftExpand
    \/ DftReturn
    \/ IslandFound
    \/ IslandExpand
    \/ IslandReturn
    \/ DijkstraFound
    \/ DijkstraExpand
    \/ DijkstraExhausted

NextTerminate ==
    \/ Register(ValidRecords(script, N), MaxArcs)
    \/ Finish
    \/ BfsCall
    \/ DftCall
    \/ IslandCall
    \/ DijkstraCall
    \/ LoopStep

\* The interpreter runs a called function on: the loop is never left waiting.
SpecTerminate == InitTerminate /\ [][NextTerminate]_vars /\ WF_vars(LoopStep)

\* A call of bfs, dft, island_has_cycle or dijkstra is running.
Running == pc \in {"bfs", "dft", "island", "dijkstra"}

\* bfs or dijkstra has returned for a target that root does not reach.
ReturnedUnreachable ==
    /\ script \in {"ex02", "ex05"} /\ pc = "done"
    /\ root # target /\ target \notin Reachable(root)

\* C16: every call of bfs, dft, island_has_cycle and dijkstra returns; for
\* an unreachable target bfs and dijkstra return with the frontier empty,
\* the empty path and inf.
CallsTerminate ==
    /\ Running ~> ~Running
    /\ [](ReturnedUnreachable =>
            /\ to_analyze = <<>>
            /\ result = (IF script = "ex02" THEN <<>> ELSE inf))

\* dijkstra is about to pop an entry for a node it has analyzed already, at
\* cost 0, while its target is unreachable.
CallsTerminateWitness ==
    /\ pc = "dijkstra" /\ to_analyze # <<>>
    /\ to_analyze[1][2] \in history /\ to_analyze[1][1] = 0
    /\ target \notin Reachable(root)
====
